---- MODULE Spec2Model ----
(***************************************************************************)
(* A model of circleci-to-gha's GeminiClient (src/circleci_to_gha/         *)
(* ai_client.py): the decomposition planner (generate_workflow), the       *)
(* response segmenter (_parse_workflows), the content sanitizer            *)
(* (_clean_yaml_content) and the completeness validator                    *)
(* (_validate_workflow_completeness).                                      *)
(*                                                                         *)
(* Text is modelled character by character: a string is a sequence of      *)
(* one-character strings, a list of lines is a sequence of such strings,   *)
(* and "\n" is the newline character of joined content.                    *)
(***************************************************************************)
EXTENDS Integers, Sequences, FiniteSets, TLC

VARIABLES
    pc,               \* position of the operation under way
    lines,            \* _parse_workflows: response.split("\n")
    i,                \* _parse_workflows: loop index (1-based)
    current_file,     \* _parse_workflows: current_file
    current_content,  \* _parse_workflows: current_content
    in_code_block,    \* _parse_workflows: in_code_block
    workflows,        \* _parse_workflows: workflows
    config,           \* generate_workflow: what yaml.safe_load makes of circleci_config
    requests,         \* the requests handed to _call_gemini so far, in order
    service,          \* the responses that the service gives, by position of the request
    next_workflow,    \* _generate_workflows_individually: position of the loop in actual_workflows
    all_workflows,    \* _generate_workflows_individually: all_workflows
    result,           \* generate_workflow: the map it returned
    exc,              \* generate_workflow: the exception it raised, "none" for none
    via,              \* generate_workflow: the return statement that returned
    failures,         \* the positions in requests of the requests the service failed
    answered,         \* the positions in requests of the requests the service answered
    caught,           \* the exceptions that the except clause of line 97 caught, in order
    raw,              \* _clean_yaml_content: the lines it is given
    first_pass,       \* _clean_yaml_content: what it returns for raw
    second_pass,      \* _clean_yaml_content: what it returns for the lines of first_pass
    workflow_content, \* _validate_workflow_completeness: content
    load_outcome,     \* what yaml.safe_load does with workflow_content
    validation,       \* _validate_workflow_completeness: how the call ended
    write,            \* migrate: the --write/--no-write option
    remove_circleci,  \* migrate: the --remove-circleci flag
    configs,          \* migrate: the number of config files that are in .circleci
    config_index,     \* migrate: position of the loop in configs
    completed,        \* migrate: the steps that returned, as <<config, step>>
    circleci_dir,     \* the .circleci directory: "absent", "present" or "removed"
    outcome           \* migrate: "none" while it runs, then how it ended

segVars == <<lines, i, current_file, current_content, in_code_block, workflows>>
planVars == <<config, requests, service, next_workflow, all_workflows, result, exc, via, failures, answered, caught>>
cleanVars == <<raw, first_pass, second_pass>>
valVars == <<workflow_content, load_outcome, validation>>
migVars == <<write, remove_circleci, configs, config_index, completed, circleci_dir, outcome>>
vars == <<pc, segVars, planVars, cleanVars, valVars, migVars>>

-----------------------------------------------------------------------------
(* Bounds of the model. *)

\* Longest response, in lines, drawn from SegVocab by the segmenter runs.
MaxLines == 5

\* Most workflow entries of a workflows section, the version key not counted.
MaxWorkflows == 3

\* Longest list of lines, drawn from CleanVocab, that the sanitizer is given.
MaxRawLines == 4

\* Longest content, in lines drawn from ValVocab, that the validator is given.
MaxContentLines == 3

\* Most config files that .circleci holds when migrate is invoked.
MaxConfigs == 2

-----------------------------------------------------------------------------
(* Python str operations, on sequences of characters. *)

\* str.strip() with no argument strips these.
Whitespace == {" ", "\t", "\n", "\r"}

RECURSIVE LStrip(_)
LStrip(s) ==
    IF s = <<>> THEN <<>>
    ELSE IF Head(s) \in Whitespace THEN LStrip(Tail(s)) ELSE s

RECURSIVE RStrip(_)
RStrip(s) ==
    IF s = <<>> THEN <<>>
    ELSE IF s[Len(s)] \in Whitespace THEN RStrip(SubSeq(s, 1, Len(s) - 1)) ELSE s

Strip(s) == RStrip(LStrip(s))

StartsWith(s, p) == Len(s) >= Len(p) /\ SubSeq(s, 1, Len(p)) = p

EndsWith(s, p) == Len(s) >= Len(p) /\ SubSeq(s, Len(s) - Len(p) + 1, Len(s)) = p

\* p in s
Contains(s, p) == \E k \in 1..(Len(s) - Len(p) + 1) : SubSeq(s, k, k + Len(p) - 1) = p

\* s.replace(p, ""): every non-overlapping occurrence, left to right.
RECURSIVE RemoveAll(_, _)
RemoveAll(s, p) ==
    IF s = <<>> THEN <<>>
    ELSE IF StartsWith(s, p) THEN RemoveAll(SubSeq(s, Len(p) + 1, Len(s)), p)
    ELSE <<Head(s)>> \o RemoveAll(Tail(s), p)

\* "\n".join(ls)
RECURSIVE Join(_)
Join(ls) ==
    IF ls = <<>> THEN <<>>
    ELSE IF Len(ls) = 1 THEN ls[1]
    ELSE ls[1] \o <<"\n">> \o Join(Tail(ls))

\* s.split("\n"): never empty, "".split("\n") is [""].
RECURSIVE Split(_)
Split(s) ==
    IF \A k \in 1..Len(s) : s[k] # "\n" THEN <<s>>
    ELSE LET n == CHOOSE k \in 1..Len(s) :
                      s[k] = "\n" /\ \A j \in 1..(k - 1) : s[j] # "\n"
         IN  <<SubSeq(s, 1, n - 1)>> \o Split(SubSeq(s, n + 1, Len(s)))

MaxOf(S) == CHOOSE x \in S : \A y \in S : y <= x

-----------------------------------------------------------------------------
(* Literals of the source. *)

\* The grave accent (U+0060), which a TLA+ string cannot hold: "BT" stands for
\* that one character.
BT == "BT"

MarkerPrefix == <<"F", "I", "L", "E", "N", "A", "M", "E", ":">>
FenceYaml == <<BT, BT, BT, "y", "a", "m", "l">>
FenceYml == <<BT, BT, BT, "y", "m", "l">>
Fence == <<BT, BT, BT>>
\* The bullet glyphs of the sanitizer; "U+2022" stands for the one character
\* of that code point.
BulletGlyphs == {<<"*">>, <<"-">>, <<"U+2022">>}
\* The prefixes the trailing trim skips: ("*", "-", the bullet, "**").
TrimSkipPrefixes == BulletGlyphs \cup {<<"*", "*">>}

-----------------------------------------------------------------------------
(* _clean_yaml_content *)

\* Mutation of IsMarkdownBullet: the glyph is looked for at column zero.
IsMarkdownBulletAtColumnZero(line) ==
    /\ \E g \in BulletGlyphs : StartsWith(line, g)
    /\ ~Contains(line, <<":">>)

\* Mutation of IsMarkdownBullet: "-" is no bullet glyph.
IsMarkdownBulletNoDash(line) ==
    /\ \E g \in BulletGlyphs \ {<<"-">>} : StartsWith(Strip(line), g)
    /\ ~Contains(line, <<":">>)

\* Lines 417-423: the two tests under which the filter loop skips a line.
IsMarkdownBullet(line) ==
    /\ \E g \in BulletGlyphs : StartsWith(Strip(line), g)
    /\ ~Contains(line, <<":">>)

\* Mutation of IsMarkdownHeading: a comment at column zero is skipped too.
IsMarkdownHeadingAnywhere(line) == StartsWith(Strip(line), <<"#">>)

IsMarkdownHeading(line) ==
    /\ StartsWith(Strip(line), <<"#">>)
    /\ ~StartsWith(line, <<"#">>)

KeepLine(line) == ~IsMarkdownBullet(line) /\ ~IsMarkdownHeading(line)

\* Lines 414-425: the lines that the filter loop appends to cleaned_lines.
FilteredLines(raw_lines) == SelectSeq(raw_lines, KeepLine)

\* Mutation of LooksLikeYaml: a line that starts with "-" is accepted by the
\* scan.
LooksLikeYamlWithDash(text) ==
    LET line == Strip(text) IN
    /\ line # <<>>
    /\ \/ Contains(line, <<":">>) /\ ~\E p \in {<<"*">>, <<"U+2022">>} : StartsWith(line, p)
       \/ StartsWith(line, <<"-">>)

\* Lines 436-439: the test of the backward scan, on lines_list[i].
LooksLikeYaml(text) ==
    LET line == Strip(text) IN
    /\ line # <<>>
    /\ ~\E p \in TrimSkipPrefixes : StartsWith(line, p)
    /\ \/ Contains(line, <<":">>)
       \/ StartsWith(line, <<"-">>)
       \/ line = <<>>

\* Lines 432-441: the 1-based position of the last line the scan accepts, the
\* last line when it accepts none.
LastYamlIdx(lines_list) ==
    LET found == {k \in 1..Len(lines_list) : LooksLikeYaml(lines_list[k])}
    IN  IF found = {} THEN Len(lines_list) ELSE MaxOf(found)

CleanYamlContent(raw_lines) ==
    LET cleaned_lines == FilteredLines(raw_lines)
        content == Strip(Join(cleaned_lines))
        lines_list == Split(content)
        last_yaml_idx == LastYamlIdx(lines_list)
        kept == IF last_yaml_idx < Len(lines_list)
                THEN Join(SubSeq(lines_list, 1, last_yaml_idx))
                ELSE content
    IN  Strip(kept)

-----------------------------------------------------------------------------
(* _parse_workflows *)

\* Python None and str for current_file: [set |-> FALSE] is None.
NoFile == [set |-> FALSE, name |-> <<>>]
File(n) == [set |-> TRUE, name |-> n]
\* Truth value of current_file: None and "" are false.
Truthy(f) == f.set /\ f.name # <<>>

EmptyMap == [n \in {} |-> <<>>]
\* d[k] = v on a dict.
Put(d, k, v) == [n \in (DOMAIN d) \cup {k} |-> IF n = k THEN v ELSE d[n]]

IsMarker(line) == StartsWith(line, MarkerPrefix)
IsFenceOpen(line) == StartsWith(line, FenceYaml) \/ StartsWith(line, FenceYml)
IsFenceLine(line) == StartsWith(line, Fence)

\* Line 383: line.replace("FILENAME:", "").strip()
ExtractName(line) == Strip(RemoveAll(line, MarkerPrefix))

\* Line 367: current_file before the first line.
InitialFile == NoFile

\* Mutation of Flush: a name already in the map keeps its first content
\* (dict.setdefault instead of assignment).
FlushKeepFirst(wf, file, content) ==
    IF Truthy(file) /\ content # <<>>
    THEN LET cleaned == CleanYamlContent(content)
         IN  IF cleaned # <<>> /\ file.name \notin DOMAIN wf
             THEN Put(wf, file.name, cleaned) ELSE wf
    ELSE wf

\* Mutation of Flush: the sanitized content is saved without the test of
\* lines 379 and 404.
FlushUnchecked(wf, file, content) ==
    IF Truthy(file) /\ content # <<>>
    THEN Put(wf, file.name, CleanYamlContent(content))
    ELSE wf

\* Lines 377-380 and 402-405: save the buffered artifact, when there is one.
Flush(wf, file, content) ==
    IF Truthy(file) /\ content # <<>>
    THEN LET cleaned == CleanYamlContent(content)
         IN  IF cleaned # <<>> THEN Put(wf, file.name, cleaned) ELSE wf
    ELSE wf

\* Mutation of Capturing: a name or an open fence is enough.
CapturingEither(file, in_block) == Truthy(file) \/ in_block

\* Mutation of Capturing: every line inside a fence is captured, named or not.
CapturingAnyFence(file, in_block) == in_block

\* Mutation of Capturing: every line after a marker is captured, fenced or not.
CapturingNoFence(file, in_block) == Truthy(file)

\* Line 395: the guard under which a line is captured.
Capturing(file, in_block) == Truthy(file) /\ in_block

\* Lines 373-397: one pass of the loop body over `line`.
ParseStep(s, line) ==
    IF IsMarker(line)
    THEN [file |-> File(ExtractName(line)), content |-> <<>>, in_block |-> FALSE,
          wf |-> Flush(s.wf, s.file, s.content)]
    ELSE IF IsFenceOpen(line)
    THEN [s EXCEPT !.in_block = TRUE]
    ELSE IF IsFenceLine(line) /\ s.in_block
    THEN [s EXCEPT !.in_block = FALSE]
    ELSE IF Capturing(s.file, s.in_block)
    THEN [s EXCEPT !.content = Append(s.content, line)]
    ELSE s

ParseInit == [file |-> InitialFile, content |-> <<>>, in_block |-> FALSE, wf |-> EmptyMap]

RECURSIVE ParseLoop(_, _)
ParseLoop(s, ls) == IF ls = <<>> THEN s ELSE ParseLoop(ParseStep(s, Head(ls)), Tail(ls))

\* The whole of _parse_workflows, on the lines of the response.
ParseWorkflows(ls) ==
    LET s == ParseLoop(ParseInit, ls) IN Flush(s.wf, s.file, s.content)

-----------------------------------------------------------------------------
(* _validate_workflow_completeness *)

\* Lines 464-470: truncation_indicators, in order.
TruncationIndicators ==
    << <<".", ".", ".">>,
       <<"#", " ", "T", "O", "D", "O">>,
       <<"#", " ", ".", ".", ".">>,
       <<"#", " ", "r", "e", "s", "t", " ", "o", "f">>,
       <<"#", " ", "r", "e", "m", "a", "i", "n", "i", "n", "g">> >>

RunKey == <<"r", "u", "n", ":">>

\* What yaml.safe_load does with a content: it returns ("ok"), raises a
\* yaml.YAMLError, or raises an exception of another class (PyYAML's
\* constructors let a ValueError through, as for the timestamp 2021-02-30).
LoadOutcomes == {"ok", "YAMLError", "ValueError"}

\* A plain scalar that the resolver takes for a base-2 integer and the
\* constructor cannot convert: int("", 2) raises a ValueError.
InvalidScalar == <<"0", "b", "_">>

\* Line 529: what yaml.safe_load(content) can do. An empty document loads
\* as None. A ValueError needs a scalar that a constructor rejects, and a
\* content that holds one is not loaded.
SafeLoadOutcomes(content) ==
    IF Strip(content) = <<>> THEN {"ok"}
    ELSE IF Contains(content, InvalidScalar)
    THEN {"YAMLError", "ValueError"}
    ELSE {"ok", "YAMLError"}

\* Line 530: the exceptions that the except clause of the validator catches.
ValidatorCatches(e) == e = "YAMLError"

\* Lines 472-476: one warning per indicator that last_line contains.
TruncationWarnings(last_line) ==
    LET hit == SelectSeq([n \in 1..Len(TruncationIndicators) |-> n],
                         LAMBDA n : Contains(last_line, TruncationIndicators[n]))
    IN  [n \in 1..Len(hit) |->
            [kind |-> "TRUNCATED_MARKER", marker |-> TruncationIndicators[hit[n]], line |-> 0]]

\* Lines 479-483.
IndentWarnings(last_line) ==
    LET indent_level == Len(last_line) - Len(LStrip(last_line))
    IN  IF indent_level > 2
        THEN <<[kind |-> "DEEP_INDENT_TAIL", marker |-> <<>>, line |-> 0]>>
        ELSE <<>>

\* Lines 486-489.
ColonWarnings(last_line) ==
    IF EndsWith(last_line, <<":">>)
    THEN <<[kind |-> "DANGLING_KEY", marker |-> <<>>, line |-> 0]>>
    ELSE <<>>

\* Lines 497-524: the body of the run-block loop on the n-th line.
RunStep(r, n, line) ==
    LET stripped == Strip(line) IN
    IF StartsWith(stripped, RunKey)
    THEN [r EXCEPT !.in_run_block =
                       ~(Len(stripped) > 5
                         /\ ~(EndsWith(stripped, <<"|">>) \/ EndsWith(stripped, <<">">>))),
                   !.run_line_number = n,
                   !.run_content_lines = 0]
    ELSE IF r.in_run_block
    THEN IF line # <<>> /\ line[1] \notin Whitespace
         THEN [r EXCEPT !.in_run_block = FALSE,
                        !.warnings =
                            IF r.run_content_lines = 0
                            THEN Append(r.warnings,
                                        [kind |-> "EMPTY_RUN_BLOCK", marker |-> <<>>,
                                         line |-> r.run_line_number])
                            ELSE r.warnings]
         ELSE IF stripped # <<>> /\ ~StartsWith(stripped, <<"#">>)
         THEN [r EXCEPT !.run_content_lines = r.run_content_lines + 1]
         ELSE r
    ELSE r

RECURSIVE RunLoop(_, _, _)
RunLoop(r, n, ls) ==
    IF n > Len(ls) THEN r ELSE RunLoop(RunStep(r, n, ls[n]), n + 1, ls)

\* Lines 492-524.
RunWarnings(ls) ==
    RunLoop([in_run_block |-> FALSE, run_line_number |-> 0, run_content_lines |-> 0,
             warnings |-> <<>>], 1, ls).warnings

\* Lines 454-534. `load` is what yaml.safe_load does with the content. The
\* outcome is the list returned, or the exception that leaves the function.
ValidateWorkflowCompleteness(content, load) ==
    LET ls == Split(Strip(content)) IN
    IF ls = <<>>
    THEN [raised |-> "none",
          warnings |-> <<[kind |-> "EMPTY", marker |-> <<>>, line |-> 0]>>]
    ELSE LET last_line == Strip(ls[Len(ls)])
             found == TruncationWarnings(last_line) \o IndentWarnings(last_line)
                          \o ColonWarnings(last_line) \o RunWarnings(ls)
         IN  IF load = "ok"
             THEN [raised |-> "none", warnings |-> found]
             ELSE IF ValidatorCatches(load)
             THEN [raised |-> "none",
                   warnings |-> Append(found, [kind |-> "PARSE_ERROR", marker |-> <<>>,
                                               line |-> 0])]
             ELSE [raised |-> load, warnings |-> <<>>]

-----------------------------------------------------------------------------
(* Responses the segmenter is run on. *)

LineMarkerA == MarkerPrefix \o <<" ", "a", ".", "y", "m", "l">>
LineMarkerB == MarkerPrefix \o <<" ", "b", ".", "y", "m", "l">>
LineFoo == <<"f", "o", "o", ":", " ", "1">>
LineBar == <<"b", "a", "r", ":", " ", "2">>
LineStepOne == <<"-", " ", "s", "t", "e", "p", " ", "o", "n", "e">>
LineProse == <<"D", "o", "n", "e", ".">>
NameA == <<"a", ".", "y", "m", "l">>
NameB == <<"b", ".", "y", "m", "l">>

SegVocab == {LineMarkerA, LineMarkerB, FenceYaml, Fence, LineFoo, LineBar}

\* The two-marker response of the specification's example.
SpecExample ==
    <<LineMarkerA, FenceYaml, LineFoo, Fence, LineMarkerB, FenceYaml, LineBar, Fence>>

\* Longer responses and lines outside SegVocab: a marker followed by two
\* fence pairs with prose between, a name used twice whose second buffer the
\* sanitizer empties, a marker with no name, a marker that holds the prefix
\* twice, the yml tag, a fence with another tag, prose before the first
\* marker, and a marker with no name, one whose buffer the sanitizer empties
\* and one whose content has whitespace around it.
SegExamples ==
    { SpecExample,
      <<LineMarkerA, FenceYaml, LineFoo, Fence, LineProse, FenceYaml, LineBar, Fence, LineProse>>,
      <<LineMarkerA, FenceYaml, LineFoo, Fence, LineProse, FenceYml, LineBar>>,
      <<LineMarkerA, FenceYaml, LineFoo, Fence, LineMarkerA, FenceYaml, LineStepOne, Fence>>,
      <<LineMarkerA, FenceYaml, LineFoo, LineStepOne, Fence, LineMarkerA, FenceYaml, LineBar, Fence>>,
      <<MarkerPrefix, FenceYaml, LineFoo, Fence, LineMarkerB, FenceYml, LineBar, Fence>>,
      <<MarkerPrefix \o <<" ">> \o LineMarkerB, FenceYaml, LineFoo, Fence>>,
      <<LineMarkerA, Fence \o <<"s", "h">>, LineFoo, Fence, FenceYaml, LineBar, Fence \o <<"s", "h">>, LineFoo>>,
      <<LineProse, FenceYaml, LineFoo, Fence, LineMarkerB, FenceYaml, LineBar, Fence>>,
      <<MarkerPrefix, FenceYaml, LineFoo, Fence, LineMarkerA, FenceYaml, LineStepOne, Fence,
        LineMarkerB, FenceYaml, <<" ">> \o LineBar \o <<" ">>, Fence>> }

SeqsUpTo(S, n) == UNION {[1..k -> S] : k \in 0..n}

SegInputs == SeqsUpTo(SegVocab, MaxLines) \cup SegExamples

-----------------------------------------------------------------------------
(* The variables of an operation that is not under way. *)

SegIdle ==
    /\ lines = <<>>
    /\ i = 1
    /\ current_file = NoFile
    /\ current_content = <<>>
    /\ in_code_block = FALSE
    /\ workflows = EmptyMap

PlanIdle ==
    /\ config = [ok |-> FALSE, mapping |-> FALSE]
    /\ requests = <<>>
    /\ service = <<>>
    /\ next_workflow = 1
    /\ all_workflows = EmptyMap
    /\ result = EmptyMap
    /\ exc = "none"
    /\ via = "none"
    /\ failures = {}
    /\ answered = {}
    /\ caught = <<>>

MigIdle ==
    /\ write = FALSE
    /\ remove_circleci = FALSE
    /\ configs = 0
    /\ config_index = 1
    /\ completed = {}
    /\ circleci_dir = "absent"
    /\ outcome = "none"

CleanIdle ==
    /\ raw = <<>>
    /\ first_pass = <<>>
    /\ second_pass = <<>>

ValIdle ==
    /\ workflow_content = <<>>
    /\ load_outcome = "ok"
    /\ validation = [raised |-> "none", warnings |-> <<>>]

-----------------------------------------------------------------------------
(* The segmenter, line by line. *)

SegInit ==
    /\ pc = "scan"
    /\ lines \in SegInputs
    /\ i = 1
    /\ current_file = InitialFile
    /\ current_content = <<>>
    /\ in_code_block = FALSE
    /\ workflows = EmptyMap
    /\ PlanIdle
    /\ CleanIdle
    /\ ValIdle
    /\ MigIdle

\* Lines 372-399: the loop body on lines[i], then i += 1.
ParseLine ==
    /\ pc = "scan"
    /\ i <= Len(lines)
    /\ LET s == ParseStep([file |-> current_file, content |-> current_content,
                           in_block |-> in_code_block, wf |-> workflows], lines[i])
       IN  /\ current_file' = s.file
           /\ current_content' = s.content
           /\ in_code_block' = s.in_block
           /\ workflows' = s.wf
    /\ i' = i + 1
    /\ UNCHANGED <<pc, lines, planVars, cleanVars, valVars, migVars>>

\* Mutation of ParseReturn: a buffer whose fence is still open is not saved.
ParseReturnClosedOnly ==
    /\ pc = "scan"
    /\ i > Len(lines)
    /\ workflows' = IF in_code_block THEN workflows
                    ELSE Flush(workflows, current_file, current_content)
    /\ pc' = "done"
    /\ UNCHANGED <<lines, i, current_file, current_content, in_code_block, planVars, cleanVars, valVars, migVars>>

\* Lines 401-407: the loop is over; save the last workflow and return.
ParseReturn ==
    /\ pc = "scan"
    /\ i > Len(lines)
    /\ workflows' = Flush(workflows, current_file, current_content)
    /\ pc' = "done"
    /\ UNCHANGED <<lines, i, current_file, current_content, in_code_block, planVars, cleanVars, valVars, migVars>>

SegNext == ParseLine \/ ParseReturn

SpecSeg == SegInit /\ [][SegNext]_vars

-----------------------------------------------------------------------------
(* The specifications generate_workflow is run on: what yaml.safe_load makes
   of circleci_config. *)

\* A value of the workflows section, or of one workflow: a mapping or not,
\* with or without a jobs list of bare names and single-key mappings.
WfNonDict == [dict |-> FALSE, has_jobs |-> FALSE, jobs |-> <<>>]
WfNoJobs == [dict |-> TRUE, has_jobs |-> FALSE, jobs |-> <<>>]
WfBuild == [dict |-> TRUE, has_jobs |-> TRUE,
            jobs |-> <<[map |-> FALSE, name |-> "build"]>>]
WfMixed == [dict |-> TRUE, has_jobs |-> TRUE,
            jobs |-> <<[map |-> TRUE, name |-> "test"],
                       [map |-> FALSE, name |-> "slack/notify"],
                       [map |-> FALSE, name |-> "build"]>>]
WfConfigs == {WfNonDict, WfNoJobs, WfBuild, WfMixed}

\* The keys of the workflow entries, by position in the document.
WorkflowNames == <<"build_and_test", "nightly", "deploy", "release", "docs">>

\* The jobs section of the documents that have one: job name to job body.
GivenJobs == [j \in {"build", "test", "deploy"} |-> <<"body of", j>>]
GivenVersion == "2"
GivenOrbs == {"slack"}

\* The entries of a workflows mapping with the workflows cfgs, in order, and
\* the version key at position vpos (0: no version key).
WorkflowEntries(cfgs, vpos) ==
    LET named == [n \in 1..Len(cfgs) |-> [key |-> WorkflowNames[n], value |-> cfgs[n]]]
    IN  IF vpos = 0 THEN named
        ELSE SubSeq(named, 1, vpos - 1)
                 \o <<[key |-> "version", value |-> WfNonDict]>>
                 \o SubSeq(named, vpos, Len(named))

EntriesOfSize(n) ==
    UNION {{WorkflowEntries(cfgs, vpos) : vpos \in 0..(n + 1)} : cfgs \in [1..n -> WfConfigs]}

\* The workflows key: absent, null, a number, a string, a list, or a mapping.
WorkflowsValues ==
    {[shape |-> sh, size |-> 0, entries |-> <<>>] : sh \in {"absent", "none"}}
        \cup {[shape |-> sh, size |-> 2, entries |-> <<>>] : sh \in {"int", "str", "list"}}
        \cup {[shape |-> "dict", size |-> Len(e), entries |-> e] :
                 e \in UNION {EntriesOfSize(n) : n \in 0..MaxWorkflows}}

ParseFailure ==
    [ok |-> FALSE, mapping |-> FALSE, has_version |-> FALSE, has_orbs |-> FALSE,
     has_jobs |-> FALSE, workflows |-> [shape |-> "absent", size |-> 0, entries |-> <<>>]]

\* A document that is not a mapping: empty, a scalar or a list.
NonMappingDoc == [ParseFailure EXCEPT !.ok = TRUE]

Configs ==
    {ParseFailure, NonMappingDoc}
        \cup [ok : {TRUE}, mapping : {TRUE}, has_version : BOOLEAN, has_orbs : BOOLEAN,
              has_jobs : BOOLEAN, workflows : WorkflowsValues]

LineJobs == <<"j", "o", "b", "s", ":">>
LineInvalid == <<"d", ":", " ", "0", "b", "_">>

\* The responses of the service: one artifact, the same name with other
\* content, another name with a content that ends in a key, prose without a
\* marker, and an artifact with a scalar that the parser cannot convert.
ResponseFoo == <<LineMarkerA, FenceYaml, LineFoo, Fence>>
ResponseBar == <<LineMarkerA, FenceYaml, LineBar, Fence>>
ResponseJobs == <<LineMarkerB, FenceYaml, LineJobs, Fence, LineProse>>
ResponseProse == <<LineProse>>
ResponseInvalid == <<LineMarkerB, FenceYaml, LineInvalid, Fence>>

\* What the service answers to the first request, the second, and so on,
\* starting over after the last.
Services ==
    { <<ResponseFoo, ResponseBar, ResponseJobs>>,
      <<ResponseJobs, ResponseBar, ResponseFoo>>,
      <<ResponseProse, ResponseFoo, ResponseInvalid>>,
      <<ResponseInvalid>> }

\* Lines 185 and 326: the response to the n-th request.
ResponseTo(n) == service[((n - 1) % Len(service)) + 1]

-----------------------------------------------------------------------------
(* generate_workflow *)

\* bool(workflows_section)
IsTruthy(w) ==
    CASE w.shape \in {"absent", "none"} -> FALSE
      [] OTHER -> w.size # 0

\* Mutation of Catches: the clause names the parser's exception class.
CatchesYamlErrorOnly(e) == e = "YAMLError"

\* Line 97: the bare except clause catches every exception.
Catches(e) == TRUE

\* Lines 91-96: the try block up to the call of line 96. What it does next:
\* call _generate_workflows_individually, fall through to line 101, or raise.
TryBlock(c) ==
    IF ~c.ok THEN [do |-> "raise", exc |-> "YAMLError"]
    ELSE IF ~c.mapping THEN [do |-> "raise", exc |-> "AttributeError"]
    ELSE IF ~IsTruthy(c.workflows) THEN [do |-> "fall", exc |-> "none"]
    ELSE IF c.workflows.shape = "int" THEN [do |-> "raise", exc |-> "TypeError"]
    ELSE IF c.workflows.size > 1 THEN [do |-> "call", exc |-> "none"]
    ELSE [do |-> "fall", exc |-> "none"]

\* Line 218: the entries of the workflows section but the version key.
ActualWorkflows(c) == SelectSeq(c.workflows.entries, LAMBDA e : e.key # "version")

\* Mutation of ReferencedJobs: the jobs named by single-key mappings are left out.
ReferencedBareJobs(workflow_config) ==
    IF workflow_config.dict /\ workflow_config.has_jobs
    THEN {workflow_config.jobs[n].name :
              n \in {m \in 1..Len(workflow_config.jobs) : ~workflow_config.jobs[m].map}}
    ELSE {}

\* Lines 230-237.
ReferencedJobs(workflow_config) ==
    IF workflow_config.dict /\ workflow_config.has_jobs
    THEN {workflow_config.jobs[n].name : n \in 1..Len(workflow_config.jobs)}
    ELSE {}

\* Line 215: config_data.get("jobs", {})
JobsSection(c) == IF c.has_jobs THEN GivenJobs ELSE [j \in {} |-> <<>>]

\* Line 241: the version of a document that states none.
DefaultVersion == "2.1"

\* Lines 240-245.
MinimalConfig(c, entry) ==
    [version |-> IF c.has_version THEN GivenVersion ELSE DefaultVersion,
     orbs |-> IF c.has_orbs THEN GivenOrbs ELSE {},
     jobs |-> [j \in ReferencedJobs(entry.value) \cap DOMAIN JobsSection(c) |->
                  JobsSection(c)[j]],
     workflows |-> <<entry>>]

\* Lines 247-326: the request for one workflow carries the dump of its
\* minimal config; line 185: the one request of the batch plan carries
\* circleci_config.
IndividualRequest(c, entry) == [plan |-> "INDIVIDUAL", carries |-> MinimalConfig(c, entry)]
BatchRequest(c) == [plan |-> "BATCH", carries |-> c]

\* Lines 190-193 and 330-333: the exception that validating the files of a
\* response raises, "none" when every call returns.
ValidationRaises(files, load) ==
    IF \E f \in DOMAIN files :
           /\ load \in SafeLoadOutcomes(files[f])
           /\ ValidateWorkflowCompleteness(files[f], load).raised # "none"
    THEN load ELSE "none"

\* The files whose validation returns no warning.
WithoutWarnings(files, load) ==
    LET quiet == {f \in DOMAIN files :
                     ValidateWorkflowCompleteness(files[f], load).warnings = <<>>}
    IN  [f \in quiet |-> files[f]]

\* Lines 190-195 and 330-335: the loop over the files prints the warnings of
\* each and writes nothing; the map goes on as _parse_workflows returned it.
AfterValidation(files, load) == files

\* Merging with the entries of the earlier request kept on a collision.
UpdateKeepingEarlier(d, e) ==
    [n \in (DOMAIN d) \cup (DOMAIN e) |-> IF n \in DOMAIN d THEN d[n] ELSE e[n]]

\* Line 335: all_workflows.update(workflow_files)
Update(d, e) == [n \in (DOMAIN d) \cup (DOMAIN e) |-> IF n \in DOMAIN e THEN e[n] ELSE d[n]]

Init ==
    /\ pc = "start"
    /\ config \in Configs
    /\ requests = <<>>
    /\ service \in Services
    /\ next_workflow = 1
    /\ all_workflows = EmptyMap
    /\ result = EmptyMap
    /\ exc = "none"
    /\ via = "none"
    /\ failures = {}
    /\ answered = {}
    /\ caught = <<>>
    /\ SegIdle
    /\ CleanIdle
    /\ ValIdle
    /\ MigIdle

\* An exception e reaches the except clause of line 97: caught, the run goes
\* on at line 101; not caught, it leaves generate_workflow.
Handle(e) ==
    IF Catches(e)
    THEN /\ pc' = "batch"
         /\ caught' = Append(caught, e)
         /\ exc' = exc
    ELSE /\ pc' = "raised"
         /\ exc' = e
         /\ caught' = caught

\* Lines 89-101 and 213-224: generate_workflow up to its first request.
GenerateWorkflow ==
    /\ pc = "start"
    /\ LET t == TryBlock(config) IN
       CASE t.do = "raise" ->
                /\ Handle(t.exc)
                /\ UNCHANGED <<result, via>>
         [] t.do = "fall" ->
                /\ pc' = "batch"
                /\ UNCHANGED <<exc, result, via, caught>>
         [] t.do = "call" /\ config.workflows.shape # "dict" ->
                \* line 218: a string or a list has no items()
                /\ Handle("AttributeError")
                /\ UNCHANGED <<result, via>>
         [] t.do = "call" /\ config.workflows.shape = "dict"
                          /\ ActualWorkflows(config) = <<>> ->
                \* lines 220-222
                /\ pc' = "returned"
                /\ result' = EmptyMap
                /\ via' = "line 96"
                /\ UNCHANGED <<exc, caught>>
         [] OTHER ->
                /\ pc' = "individual"
                /\ UNCHANGED <<exc, result, via, caught>>
    /\ UNCHANGED <<config, answered, requests, service, next_workflow, all_workflows, failures, segVars, cleanVars, valVars, migVars>>

\* Mutation of IndividualCall: the request of the next workflow is made
\* without waiting for the response to the one before.
IndividualCallAhead ==
    /\ pc \in {"individual", "individual_wait"}
    /\ Len(requests) < Len(ActualWorkflows(config))
    /\ requests' = Append(requests,
                          IndividualRequest(config, ActualWorkflows(config)[Len(requests) + 1]))
    /\ pc' = "individual_wait"
    /\ UNCHANGED <<config, answered, service, next_workflow, all_workflows, result, exc, via, failures, caught, segVars, cleanVars, valVars, migVars>>

\* Mutation of IndividualReturn: the loop is left before its end.
IndividualReturnEarly ==
    /\ pc = "individual"
    /\ result' = all_workflows
    /\ via' = "line 96"
    /\ pc' = "returned"
    /\ UNCHANGED <<config, answered, requests, service, next_workflow, all_workflows, exc, failures, caught, segVars, cleanVars, valVars, migVars>>

\* Lines 226-326: the next workflow's request is handed to _call_gemini.
IndividualCall ==
    /\ pc = "individual"
    /\ next_workflow <= Len(ActualWorkflows(config))
    /\ requests' = Append(requests,
                          IndividualRequest(config, ActualWorkflows(config)[next_workflow]))
    /\ pc' = "individual_wait"
    /\ UNCHANGED <<config, answered, service, next_workflow, all_workflows, result, exc, via, failures, caught, segVars, cleanVars, valVars, migVars>>

\* Line 326: _call_gemini raises; the exception passes through
\* _generate_workflows_individually to the except clause of line 97.
IndividualFailure ==
    /\ pc = "individual_wait"
    /\ failures' = failures \cup {Len(requests)}
    /\ Handle("ServiceError")
    /\ all_workflows' = EmptyMap
    /\ UNCHANGED <<config, answered, requests, service, next_workflow, result, via, segVars, cleanVars, valVars, migVars>>

\* Lines 326-335: the response is segmented, its files validated and merged.
IndividualResponse ==
    /\ pc = "individual_wait"
    /\ answered' = answered \cup {Len(requests)}
    /\ \E load \in LoadOutcomes :
             LET response == ResponseTo(Len(requests))
                 workflow_files == ParseWorkflows(response)
                 e == ValidationRaises(workflow_files, load)
             IN  IF e # "none"
                 THEN /\ Handle(e)
                      /\ all_workflows' = EmptyMap
                      /\ UNCHANGED next_workflow
                 ELSE /\ all_workflows' = Update(all_workflows, AfterValidation(workflow_files, load))
                      /\ next_workflow' = next_workflow + 1
                      /\ pc' = "individual"
                      /\ UNCHANGED <<exc, caught>>
    /\ UNCHANGED <<config, requests, service, result, via, failures, segVars, cleanVars, valVars, migVars>>

\* Lines 337 and 96: the loop is over; all_workflows is returned.
IndividualReturn ==
    /\ pc = "individual"
    /\ next_workflow > Len(ActualWorkflows(config))
    /\ result' = all_workflows
    /\ via' = "line 96"
    /\ pc' = "returned"
    /\ UNCHANGED <<config, answered, requests, service, next_workflow, all_workflows, exc, failures, caught, segVars, cleanVars, valVars, migVars>>

\* Lines 101 and 105-185: the one request of _generate_all_workflows.
BatchCall ==
    /\ pc = "batch"
    /\ requests' = Append(requests, BatchRequest(config))
    /\ pc' = "batch_wait"
    /\ UNCHANGED <<config, answered, service, next_workflow, all_workflows, result, exc, via, failures, caught, segVars, cleanVars, valVars, migVars>>

\* Line 185: _call_gemini raises, outside the try statement.
BatchFailure ==
    /\ pc = "batch_wait"
    /\ failures' = failures \cup {Len(requests)}
    /\ exc' = "ServiceError"
    /\ pc' = "raised"
    /\ UNCHANGED <<config, answered, requests, service, next_workflow, all_workflows, result, via, caught, segVars, cleanVars, valVars, migVars>>

\* Lines 185-195 and 101: the response is segmented, its files validated and
\* returned.
BatchResponse ==
    /\ pc = "batch_wait"
    /\ answered' = answered \cup {Len(requests)}
    /\ \E load \in LoadOutcomes :
             LET response == ResponseTo(Len(requests))
                 workflow_files == ParseWorkflows(response)
                 e == ValidationRaises(workflow_files, load)
             IN  IF e # "none"
                 THEN /\ exc' = e
                      /\ pc' = "raised"
                      /\ UNCHANGED <<result, via>>
                 ELSE /\ result' = AfterValidation(workflow_files, load)
                      /\ via' = "line 101"
                      /\ pc' = "returned"
                      /\ exc' = exc
    /\ UNCHANGED <<config, requests, service, next_workflow, all_workflows, failures, caught, segVars, cleanVars, valVars, migVars>>

Next ==
    \/ GenerateWorkflow
    \/ IndividualCall
    \/ IndividualFailure
    \/ IndividualResponse
    \/ IndividualReturn
    \/ BatchCall
    \/ BatchFailure
    \/ BatchResponse

Spec == Init /\ [][Next]_vars

-----------------------------------------------------------------------------
(* The planner's claims. *)

Terminated == pc \in {"returned", "raised"}

\* The workflow entries of a document, the version key apart, in document order.
WorkflowCount(c) ==
    Cardinality({n \in 1..Len(c.workflows.entries) : c.workflows.entries[n].key # "version"})

\* The document parses to a mapping whose workflows section is a mapping with
\* more than one workflow entry.
SeveralWorkflows(c) ==
    c.ok /\ c.mapping /\ c.workflows.shape = "dict" /\ WorkflowCount(c) > 1

\* C1 as stated: a request that the service fails ends generate_workflow with
\* that failure, and no request follows the failing one.
C1_ServiceFailurePropagates ==
    \A f \in failures :
        /\ pc = "raised"
        /\ exc = "ServiceError"
        /\ Len(requests) = f

\* C2 as stated: the first request is one of the INDIVIDUAL plan iff the
\* document parses and has more than one workflow entry beside the version
\* key; in every other case the run makes exactly one request, which carries
\* the full original text.
C2_PlanDecision ==
    /\ requests # <<>> =>
           (requests[1].plan = "INDIVIDUAL" <=> SeveralWorkflows(config))
    /\ (Terminated /\ ~SeveralWorkflows(config)) =>
           requests = <<BatchRequest(config)>>

\* The n-th workflow entry of a document, the version key apart.
NthWorkflow(c, n) ==
    LET e == c.workflows.entries
        at == CHOOSE m \in 1..Len(e) :
                  /\ e[m].key # "version"
                  /\ Cardinality({j \in 1..m : e[j].key # "version"}) = n
    IN  e[at]

\* The sub-specification of the claim for a workflow entry: the version (2.1
\* by default), the orbs, the jobs that the workflow references and that the
\* jobs section holds, with their bodies, and the entry alone.
SubSpecification(c, entry) ==
    LET refs == IF entry.value.dict /\ entry.value.has_jobs
                THEN {entry.value.jobs[n].name : n \in 1..Len(entry.value.jobs)}
                ELSE {}
        held == IF c.has_jobs THEN DOMAIN GivenJobs ELSE {}
    IN  [version |-> IF c.has_version THEN GivenVersion ELSE "2.1",
         orbs |-> IF c.has_orbs THEN GivenOrbs ELSE {},
         jobs |-> [j \in refs \cap held |-> GivenJobs[j]],
         workflows |-> <<entry>>]

ExpectedRequests(c) ==
    [n \in 1..WorkflowCount(c) |->
        [plan |-> "INDIVIDUAL", carries |-> SubSpecification(c, NthWorkflow(c, n))]]

IndividualRequests == SelectSeq(requests, LAMBDA r : r.plan = "INDIVIDUAL")

\* C3: for a parsed document with N > 1 workflow entries, with or without a
\* version key among them, the requests of the INDIVIDUAL plan are, in
\* document order, the sub-specifications of the workflow entries: at every
\* moment the first ones of them, never more than N, and all N when the plan
\* has run to its end, which it has whenever generate_workflow returns
\* without an exception caught on the way.
C3_OneRequestPerWorkflow ==
    SeveralWorkflows(config) =>
        /\ Len(IndividualRequests) <= WorkflowCount(config)
        /\ IndividualRequests = SubSeq(ExpectedRequests(config), 1, Len(IndividualRequests))
        /\ SubSeq(requests, 1, Len(IndividualRequests)) = IndividualRequests
        /\ (pc = "returned" /\ (via = "line 96" \/ caught = <<>>)) =>
               requests = ExpectedRequests(config)

\* Three workflow entries and a version key: three requests were made, and
\* one of them leaves out a job that its workflow names and that the jobs
\* section lacks.
C3_Witness ==
    /\ pc = "returned"
    /\ via = "line 96"
    /\ WorkflowCount(config) = 3
    /\ Len(config.workflows.entries) = 4
    /\ Len(requests) = 3
    /\ \E n \in 1..3 :
          /\ requests[n].carries.workflows[1].value = WfMixed
          /\ DOMAIN requests[n].carries.jobs = {"test", "build"}

\* The text does not parse, or parses to something that is no mapping, or to
\* a mapping whose workflows section is missing, null or no mapping.
Unusable(c) == ~c.ok \/ ~c.mapping \/ c.workflows.shape # "dict"

\* C4: for such a document generate_workflow raises nothing of the parse or
\* of the shape of the document, and makes exactly one request, of the BATCH
\* plan, which carries the full original text.
C4_ParseFailureFallsBack ==
    Unusable(config) =>
        /\ exc \notin {"YAMLError", "AttributeError", "TypeError"}
        /\ Len(requests) <= 1
        /\ \A n \in 1..Len(requests) : requests[n] = BatchRequest(config)
        /\ Terminated => Len(requests) = 1
        /\ pc = "raised" => (exc = "ServiceError" \/ exc = "ValueError")

\* The text did not parse, and generate_workflow returned after one request.
C4_Witness ==
    /\ pc = "returned"
    /\ ~config.ok
    /\ caught = <<"YAMLError">>
    /\ requests = <<BatchRequest(config)>>

-----------------------------------------------------------------------------
(* The segmenter's result, stated from the response alone. *)

MinOf(S) == CHOOSE x \in S : \A y \in S : x <= y

MarkerPositions(ls) == {k \in 1..Len(ls) : IsMarker(ls[k])}

\* The marker line in force at position j: the last one before j, 0 for none.
MarkerBefore(ls, j) ==
    LET M == {k \in MarkerPositions(ls) : k < j} IN IF M = {} THEN 0 ELSE MaxOf(M)

\* The first position after marker m that belongs to the next marker.
SpanEnd(ls, m) ==
    LET M == {k \in MarkerPositions(ls) : k > m} IN IF M = {} THEN Len(ls) + 1 ELSE MinOf(M)

\* A fence line that does not open a fence closes one.
IsFenceClose(line) == IsFenceLine(line) /\ ~IsFenceOpen(line)

\* Position j follows a fence-open line of marker m with no fence close between.
InOpenFence(ls, m, j) ==
    \E k \in (m + 1)..(j - 1) :
        /\ IsFenceOpen(ls[k])
        /\ \A t \in (k + 1)..(j - 1) : ~IsFenceClose(ls[t])

\* ... and that fence is closed by a fence-close line before the next marker.
InClosedFence(ls, m, j) ==
    /\ InOpenFence(ls, m, j)
    /\ \E c \in (j + 1)..(SpanEnd(ls, m) - 1) : IsFenceClose(ls[c])

PickLines(ls, Test(_)) ==
    LET sel == SelectSeq([k \in 1..Len(ls) |-> k], Test)
    IN  [k \in 1..Len(sel) |-> ls[sel[k]]]

\* The lines of the fence spans of marker m, a span ending at the fence close,
\* at the next marker or at the end of the input, whichever comes first.
FenceSpanLines(ls, m) ==
    PickLines(ls, LAMBDA j : /\ m < j /\ j < SpanEnd(ls, m)
                             /\ ~IsFenceLine(ls[j])
                             /\ InOpenFence(ls, m, j))

\* The lines of the fence open/close pairs of marker m only.
ClosedPairLines(ls, m) ==
    PickLines(ls, LAMBDA j : /\ m < j /\ j < SpanEnd(ls, m)
                             /\ ~IsFenceLine(ls[j])
                             /\ InClosedFence(ls, m, j))

\* The markers whose raw content Raw makes an artifact: a name, and content
\* that the sanitizer does not empty.
Emitting(ls, Raw(_, _)) ==
    {m \in MarkerPositions(ls) :
        /\ ExtractName(ls[m]) # <<>>
        /\ CleanYamlContent(Raw(ls, m)) # <<>>}

\* The map of artifacts when marker m collects Raw(ls, m): per name, the
\* sanitized content of the last marker that makes an artifact.
ArtifactMap(ls, Raw(_, _)) ==
    LET E == Emitting(ls, Raw)
    IN  [n \in {ExtractName(ls[m]) : m \in E} |->
            CleanYamlContent(Raw(ls, MaxOf({m \in E : ExtractName(ls[m]) = n})))]

\* The markers that carry the name n.
Occurrences(ls, n) == {m \in MarkerPositions(ls) : ExtractName(ls[m]) = n}

\* The names that two or more marker lines carry.
RepeatedNames(ls) ==
    {n \in {ExtractName(ls[m]) : m \in MarkerPositions(ls)} :
        n # <<>> /\ Cardinality(Occurrences(ls, n)) >= 2}

Consumed == SubSeq(lines, 1, i - 1)

-----------------------------------------------------------------------------
(* C5 *)

\* C5 as stated: a name carried by two marker lines, with content under one
\* of them at least, has exactly one entry in the returned map, and its
\* content is that of the later occurrence.
C5_LaterAlwaysReplaces ==
    pc = "done" =>
        \A n \in RepeatedNames(lines) :
            Occurrences(lines, n) \cap Emitting(lines, FenceSpanLines) # {} =>
                /\ n \in DOMAIN workflows
                /\ workflows[n] =
                       CleanYamlContent(FenceSpanLines(lines, MaxOf(Occurrences(lines, n))))

\* C5, amended: a name carried by two or more marker lines has an entry iff
\* some occurrence has content that the sanitizer does not empty, and the
\* entry is the content of the latest such occurrence; a later occurrence
\* without content leaves the earlier content in place.
C5_LastNonEmptyWins ==
    pc = "done" =>
        \A n \in RepeatedNames(lines) :
            LET U == Occurrences(lines, n) \cap Emitting(lines, FenceSpanLines)
            IN  IF U = {}
                THEN n \notin DOMAIN workflows
                ELSE /\ n \in DOMAIN workflows
                     /\ workflows[n] = CleanYamlContent(FenceSpanLines(lines, MaxOf(U)))

\* A name is used twice, both occurrences have content, the contents differ
\* and the map holds the later one.
C5_Witness ==
    /\ pc = "done"
    /\ \E n \in RepeatedNames(lines) :
          \E m1, m2 \in Occurrences(lines, n) \cap Emitting(lines, FenceSpanLines) :
              /\ m1 < m2
              /\ m2 = MaxOf(Occurrences(lines, n))
              /\ CleanYamlContent(FenceSpanLines(lines, m1))
                     # CleanYamlContent(FenceSpanLines(lines, m2))
              /\ workflows[n] = CleanYamlContent(FenceSpanLines(lines, m2))

-----------------------------------------------------------------------------
(* C6 *)

FirstMarker(ls) == IF MarkerPositions(ls) = {} THEN Len(ls) + 1 ELSE MinOf(MarkerPositions(ls))

\* C6: while no marker line has been read the buffer and the map stay empty,
\* and the returned map is the one the lines from the first marker on yield
\* by themselves: the empty map when there is no marker.
C6_BeforeFirstMarkerDiscarded ==
    /\ (pc = "scan" /\ MarkerPositions(Consumed) = {}) =>
           (current_content = <<>> /\ workflows = EmptyMap)
    /\ pc = "done" =>
           /\ workflows = ParseWorkflows(SubSeq(lines, FirstMarker(lines), Len(lines)))
           /\ MarkerPositions(lines) = {} => workflows = EmptyMap

\* A fence is opened and a line follows in it before the first marker, and
\* the marker goes on to make an artifact.
C6_Witness ==
    /\ pc = "done"
    /\ \E k \in 1..(FirstMarker(lines) - 2) :
          /\ IsFenceOpen(lines[k])
          /\ ~IsFenceLine(lines[k + 1])
    /\ workflows # EmptyMap

-----------------------------------------------------------------------------
(* C7 *)

\* C7 as stated: the content collected for a marker is made of the lines of
\* the fence open/close pairs that follow it before the next marker.
C7_ClosedPairsOnly ==
    pc = "done" => workflows = ArtifactMap(lines, ClosedPairLines)

\* C7, amended: the content collected for a marker is the concatenation, in
\* input order, of the lines of the fence spans that follow it before the
\* next marker, where a span runs from a fence-open line to the next fence
\* close, or to the next marker or the end of the input when the fence is
\* not closed; lines between a fence close and the next fence open or marker
\* are not part of it. The example yields {a.yml: "foo: 1", b.yml: "bar: 2"}.
C7_FenceSpansCollected ==
    /\ LET m == MarkerBefore(lines, i) IN
       (pc = "scan" /\ m > 0) =>
           current_content =
               IF ExtractName(lines[m]) # <<>> THEN FenceSpanLines(Consumed, m) ELSE <<>>
    /\ pc = "done" => workflows = ArtifactMap(lines, FenceSpanLines)
    /\ (pc = "done" /\ lines = SpecExample) =>
           workflows = [n \in {NameA, NameB} |-> IF n = NameA THEN LineFoo ELSE LineBar]

\* One marker is followed by two closed fence pairs with prose between them
\* and after them, and the artifact holds the lines of both pairs.
C7_Witness ==
    /\ pc = "done"
    /\ lines = <<LineMarkerA, FenceYaml, LineFoo, Fence, LineProse,
                 FenceYaml, LineBar, Fence, LineProse>>
    /\ workflows = [n \in {NameA} |-> LineFoo \o <<"\n">> \o LineBar]

-----------------------------------------------------------------------------
(* The sanitizer, applied to raw lines and again to the lines of its result. *)

CleanVocab ==
    { <<>>,
      <<" ">>,
      <<"f", "o", "o", ":", " ", "1">>,
      <<" ", " ", "b", "a", "r", ":", " ", "2">>,
      <<"-", " ", "s", "t", "e", "p", " ", "o", "n", "e">>,
      <<" ", " ", "-", " ", "t", "w", "o">>,
      <<" ", " ", "-", " ", "n", "a", "m", "e", ":", " ", "x">>,
      <<"#", " ", "t", "o", "p">>,
      <<" ", " ", "#", " ", "n", "o", "t", "e">>,
      <<"D", "o", "n", "e", ".">> }

CleanInit ==
    /\ pc = "clean"
    /\ raw \in SeqsUpTo(CleanVocab, MaxRawLines)
    /\ first_pass = <<>>
    /\ second_pass = <<>>
    /\ SegIdle
    /\ PlanIdle
    /\ ValIdle
    /\ MigIdle

\* Lines 409-447, on raw.
CleanOnce ==
    /\ pc = "clean"
    /\ first_pass' = CleanYamlContent(raw)
    /\ pc' = "cleaned"
    /\ UNCHANGED <<raw, second_pass, segVars, planVars, valVars, migVars>>

\* Lines 409-447, on the lines of the content that the first call returned.
CleanAgain ==
    /\ pc = "cleaned"
    /\ second_pass' = CleanYamlContent(Split(first_pass))
    /\ pc' = "recleaned"
    /\ UNCHANGED <<raw, first_pass, segVars, planVars, valVars, migVars>>

CleanNext == CleanOnce \/ CleanAgain

SpecClean == CleanInit /\ [][CleanNext]_vars

-----------------------------------------------------------------------------
(* The validator, applied to a content. *)

ValVocab ==
    { <<>>,
      <<"j", "o", "b", "s", ":">>,
      <<" ", " ", "b", "u", "i", "l", "d", ":">>,
      <<"r", "u", "n", ":", " ", "|">>,
      <<" ", " ", " ", " ", " ", " ", "r", "u", "n", ":">>,
      <<" ", " ", " ", " ", " ", " ", " ", " ", "e", "c", "h", "o", " ", "h", "i">>,
      <<"n", "a", "m", "e", ":", " ", "x">>,
      <<"#", " ", "T", "O", "D", "O">>,
      <<"d", ":", " ", "0", "b", "_">> }

ValContents == {Join(ls) : ls \in SeqsUpTo(ValVocab, MaxContentLines)}

ValInit ==
    /\ pc = "validate"
    /\ workflow_content \in ValContents
    /\ load_outcome \in SafeLoadOutcomes(workflow_content)
    /\ validation = [raised |-> "none", warnings |-> <<>>]
    /\ SegIdle
    /\ PlanIdle
    /\ CleanIdle
    /\ MigIdle

\* Lines 449-534.
Validate ==
    /\ pc = "validate"
    /\ validation' = ValidateWorkflowCompleteness(workflow_content, load_outcome)
    /\ pc' = "validated"
    /\ UNCHANGED <<workflow_content, load_outcome, segVars, planVars, cleanVars, migVars>>

ValNext == Validate

SpecValidate == ValInit /\ [][ValNext]_vars

-----------------------------------------------------------------------------
(* C8 *)

\* C8: sanitizing the lines of a sanitized content returns that content.
C8_CleanIdempotent ==
    pc = "recleaned" => second_pass = first_pass

\* The first call dropped or trimmed something and left several lines, and
\* the second call has run.
C8_Witness ==
    /\ pc = "recleaned"
    /\ first_pass # Join(raw)
    /\ Len(Split(first_pass)) >= 2
    /\ second_pass = first_pass

-----------------------------------------------------------------------------
(* C9 *)

LinesOf(text) == {Split(text)[n] : n \in 1..Len(Split(text))}

\* C9 as stated: a line "- step one" of the raw content is in the output.
C9_StepLinePreserved ==
    (pc = "cleaned" /\ \E n \in 1..Len(raw) : raw[n] = LineStepOne) =>
        LineStepOne \in LinesOf(first_pass)

\* C9, amended: a line "- step one" of the raw content is never in the
\* output, the line filter drops it as a markdown bullet; no line of the
\* output leads with "-" unless it contains a colon.
C9_DashLineWithoutColonDropped ==
    pc = "cleaned" =>
        \A line \in LinesOf(first_pass) :
            /\ line # LineStepOne
            /\ StartsWith(Strip(line), <<"-">>) => Contains(line, <<":">>)

\* The raw content holds "- step one" among lines that the sanitizer keeps.
C9_Witness ==
    /\ pc = "cleaned"
    /\ \E n \in 1..Len(raw) : raw[n] = LineStepOne
    /\ first_pass # <<>>
    /\ LineStepOne \notin LinesOf(first_pass)

-----------------------------------------------------------------------------
(* C10 *)

\* C10 as stated: whatever the content, and however the parser fails on it,
\* the call returns a list of warnings and raises nothing.
C10_ValidatorNeverRaises ==
    pc = "validated" => validation.raised = "none"

-----------------------------------------------------------------------------
(* C11 to C16: the checks of the validator. *)

\* The kinds of the warnings that the call returned.
Kinds == {validation.warnings[n].kind : n \in DOMAIN validation.warnings}

\* The lines of the content as it was given, before line 455 strips it.
ContentLines == Split(workflow_content)

LeadingWidth(line) == Len(line) - Len(LStrip(line))

IsBlank(line) == Strip(line) = <<>>

\* The last line of the content that is not blank; <<>> when all are blank.
LastNonBlank ==
    LET nb == {n \in 1..Len(ContentLines) : ~IsBlank(ContentLines[n])}
    IN  IF nb = {} THEN <<>> ELSE ContentLines[MaxOf(nb)]

\* C11 as stated: a content that is empty or holds only whitespace gets the
\* EMPTY warning.
C11_EmptyContentWarned ==
    (pc = "validated" /\ Strip(workflow_content) = <<>>) => "EMPTY" \in Kinds

\* C12 as stated: the DEEP_INDENT_TAIL warning is returned exactly when the
\* last non-blank line of the content has more than 2 columns of leading
\* whitespace.
C12_DeepIndentTail ==
    pc = "validated" =>
        ("DEEP_INDENT_TAIL" \in Kinds <=> LeadingWidth(LastNonBlank) > 2)

\* C13 as stated: the DANGLING_KEY warning is returned exactly when the last
\* non-blank line of the content, trimmed, ends with a colon.
C13_DanglingKey ==
    pc = "validated" =>
        ("DANGLING_KEY" \in Kinds <=> EndsWith(Strip(LastNonBlank), <<":">>))

\* "run:" alone or followed by a literal-block indicator.
IsRunBlockKey(line) ==
    LET s == Strip(line) IN
    /\ StartsWith(s, RunKey)
    /\ Strip(SubSeq(s, Len(RunKey) + 1, Len(s))) \in {<<>>, <<"|">>, <<">">>}

AtColumnZero(line) == line # <<>> /\ line[1] \notin Whitespace

EmptyRunBlockAt(n) ==
    \E w \in DOMAIN validation.warnings :
        /\ validation.warnings[w].kind = "EMPTY_RUN_BLOCK"
        /\ validation.warnings[w].line = n

\* The call has returned its list, for a content that the sanitizer can
\* return: not empty, no whitespace around it.
ReturnedForCleaned ==
    /\ pc = "validated"
    /\ validation.raised = "none"
    /\ workflow_content # <<>>
    /\ workflow_content = Strip(workflow_content)

\* C14 as stated, for the calls that return: a run-block key that the next
\* line follows at column zero gets EMPTY_RUN_BLOCK with the number of its
\* line in the content.
C14_EmptyRunBlockAtColumnZero ==
    ReturnedForCleaned =>
        \A n \in 1..(Len(ContentLines) - 1) :
            (IsRunBlockKey(ContentLines[n]) /\ AtColumnZero(ContentLines[n + 1]))
                => EmptyRunBlockAt(n)

IsComment(line) == StartsWith(Strip(line), <<"#">>)

\* Line m closes the block of the key of line n: it is the next line that
\* is indented as much as the key or less, and no body line lies between.
Closes(m, n) ==
    /\ m \in (n + 1)..Len(ContentLines)
    /\ ~IsBlank(ContentLines[m])
    /\ ~IsComment(ContentLines[m])
    /\ LeadingWidth(ContentLines[m]) <= LeadingWidth(ContentLines[n])
    /\ \A j \in (n + 1)..(m - 1) : IsBlank(ContentLines[j]) \/ IsComment(ContentLines[j])

\* The nested run-block keys with an empty body that a sibling or parent
\* key closes.
EmptyBodyKeys ==
    {n \in 1..Len(ContentLines) :
        /\ IsRunBlockKey(ContentLines[n])
        /\ LeadingWidth(ContentLines[n]) > 0
        /\ \E m \in 1..Len(ContentLines) :
              Closes(m, n) /\ ~StartsWith(Strip(ContentLines[m]), RunKey)}

\* C15 as stated, for the calls that return and the keys that are nested: a
\* run-block key whose body is empty before the next line at equal or lower
\* indentation gets EMPTY_RUN_BLOCK with the number of its line.
C15_EmptyRunBlockAtAnyIndent ==
    ReturnedForCleaned => \A n \in EmptyBodyKeys : EmptyRunBlockAt(n)

\* C16 as stated: one TRUNCATED_MARKER warning for each marker that the last
\* non-blank line contains, and none for any other marker.
C16_TruncatedMarker ==
    pc = "validated" =>
        \A k \in DOMAIN TruncationIndicators :
            (\E w \in DOMAIN validation.warnings :
                /\ validation.warnings[w].kind = "TRUNCATED_MARKER"
                /\ validation.warnings[w].marker = TruncationIndicators[k])
            <=> Contains(LastNonBlank, TruncationIndicators[k])

-----------------------------------------------------------------------------
(* C17 and C18: the map that generate_workflow returns. *)

\* What segmenting and sanitizing make of each response of the service, and
\* of the response to the n-th request.
ProducedFrom ==
    [r \in UNION {{sv[k] : k \in 1..Len(sv)} : sv \in Services} |-> ParseWorkflows(r)]

Produced(n) == ProducedFrom[ResponseTo(n)]

\* The warnings that the validator returns for a content the parser loads.
WarningsFor(content) == ValidateWorkflowCompleteness(content, "ok").warnings

\* C17: the map that generate_workflow returns holds the artifacts as
\* segmenting and sanitizing produced them, with or without warnings: after
\* the one request of the batch plan it is the map made of the response, and
\* after the requests of the individual plan every artifact of every
\* response is there under its name, and every content is the content that
\* some response gave under that name, the last response unaltered. The
\* warnings of an artifact are those of every check, one after the other.
C17_WarningsAdvisory ==
    pc = "returned" =>
        /\ via = "line 101" => result = Produced(Len(requests))
        /\ via = "line 96" =>
              /\ \A n \in 1..Len(requests) : DOMAIN Produced(n) \subseteq DOMAIN result
              /\ \A f \in DOMAIN result :
                    \E n \in 1..Len(requests) :
                        f \in DOMAIN Produced(n) /\ result[f] = Produced(n)[f]
              /\ requests # <<>> =>
                    \A f \in DOMAIN Produced(Len(requests)) :
                        result[f] = Produced(Len(requests))[f]
        /\ \A f \in DOMAIN result :
              LET ls == Split(Strip(result[f]))
                  last_line == Strip(ls[Len(ls)])
              IN  WarningsFor(result[f]) =
                      TruncationWarnings(last_line) \o IndentWarnings(last_line)
                          \o ColonWarnings(last_line) \o RunWarnings(ls)

\* The batch plan has returned an artifact for which the validator returned
\* a warning.
C17_Witness ==
    /\ pc = "returned"
    /\ via = "line 101"
    /\ NameB \in DOMAIN result
    /\ result[NameB] = LineJobs
    /\ WarningsFor(result[NameB]) # <<>>

\* The requests whose response holds an artifact of the name f.
Producers(f) == {n \in 1..Len(requests) : f \in DOMAIN Produced(n)}

ProducedNames == UNION {DOMAIN Produced(n) : n \in 1..Len(requests)}

\* C18: the map that the individual plan returns has the names of all the
\* per-request maps, each with the content that the last of the requests
\* with that name produced.
C18_LaterRequestOverwrites ==
    (pc = "returned" /\ via = "line 96") =>
        result = [f \in ProducedNames |-> Produced(MaxOf(Producers(f)))[f]]

\* Three requests: the first two gave the same name with different
\* contents, the third another name; both names are in the result.
C18_Witness ==
    /\ pc = "returned"
    /\ via = "line 96"
    /\ Len(requests) = 3
    /\ Producers(NameA) = {1, 2}
    /\ Produced(1)[NameA] # Produced(2)[NameA]
    /\ Producers(NameB) = {3}
    /\ result[NameA] = Produced(2)[NameA]
    /\ DOMAIN result = {NameA, NameB}

-----------------------------------------------------------------------------
(* C19 and C20: the entries of the map that _parse_workflows returns. *)

\* C19: at every moment, every entry of the map has a name that is not empty
\* and a content that is not empty and has no whitespace at either end; and
\* the returned map has no entry for a name when none of the markers that
\* carry it has a buffer that the sanitizer leaves something of.
C19_EntriesNonEmpty ==
    /\ \A n \in DOMAIN workflows :
          /\ n # <<>>
          /\ workflows[n] # <<>>
          /\ workflows[n] = Strip(workflows[n])
    /\ pc = "done" =>
          \A m \in MarkerPositions(lines) :
              (\A o \in Occurrences(lines, ExtractName(lines[m])) :
                  CleanYamlContent(FenceSpanLines(lines, o)) = <<>>)
                  => ExtractName(lines[m]) \notin DOMAIN workflows

\* The response has a marker without a name that a fenced content follows, a
\* named marker whose buffer the sanitizer empties, and a marker whose
\* buffer has whitespace around it and makes an entry.
C19_Witness ==
    /\ pc = "done"
    /\ \E m \in MarkerPositions(lines) :
          ExtractName(lines[m]) = <<>> /\ CleanYamlContent(FenceSpanLines(lines, m)) # <<>>
    /\ \E m \in MarkerPositions(lines) :
          /\ ExtractName(lines[m]) # <<>>
          /\ FenceSpanLines(lines, m) # <<>>
          /\ CleanYamlContent(FenceSpanLines(lines, m)) = <<>>
          /\ ExtractName(lines[m]) \notin DOMAIN workflows
    /\ \E m \in MarkerPositions(lines) :
          /\ Join(FenceSpanLines(lines, m)) # Strip(Join(FenceSpanLines(lines, m)))
          /\ ExtractName(lines[m]) \in DOMAIN workflows

\* C20 as stated: a marker line with a name, followed by YAML lines that no
\* fence encloses, yields an artifact of that name with those lines.
C20_RawYamlSupported ==
    (/\ pc = "done"
     /\ Len(lines) >= 2
     /\ MarkerPositions(lines) = {1}
     /\ ExtractName(lines[1]) # <<>>
     /\ \A k \in 2..Len(lines) : ~IsFenceLine(lines[k])
     /\ CleanYamlContent(Tail(lines)) # <<>>)
        => workflows = Put(EmptyMap, ExtractName(lines[1]), CleanYamlContent(Tail(lines)))

-----------------------------------------------------------------------------
(* C21 and C27: the order of the requests and what is returned. *)

\* The requests that the service has neither answered nor failed.
Outstanding == {n \in 1..Len(requests) : n \notin answered \cup failures}

\* The per-request maps of the first k requests, merged in request order.
MergedUpTo(k) ==
    LET names == UNION {DOMAIN Produced(n) : n \in 1..k}
    IN  [f \in names |-> Produced(MaxOf({n \in 1..k : f \in DOMAIN Produced(n)}))[f]]

\* C21: at most one request is outstanding at any moment, and it is the last
\* one made; while the request of a workflow of the individual plan is
\* outstanding, all the requests before it are answered and the accumulating
\* map is the merge of their responses, and between two requests the map is
\* the merge of the responses to all the requests made.
C21_StrictlySequential ==
    /\ Cardinality(Outstanding) <= 1
    /\ Outstanding \subseteq {Len(requests)}
    /\ (Outstanding # {}) <=> (pc \in {"individual_wait", "batch_wait"})
    /\ pc = "individual_wait" =>
          /\ Len(requests) = next_workflow
          /\ answered = 1..(next_workflow - 1)
          /\ all_workflows = MergedUpTo(next_workflow - 1)
    /\ pc = "individual" =>
          /\ Len(requests) = next_workflow - 1
          /\ answered = 1..Len(requests)
          /\ all_workflows = MergedUpTo(Len(requests))

\* The request of the third workflow is outstanding; the responses to the
\* first two are merged.
C21_Witness ==
    /\ pc = "individual_wait"
    /\ Len(requests) = 3
    /\ answered = {1, 2}
    /\ DOMAIN all_workflows = {NameA, NameB}

-----------------------------------------------------------------------------
(* C22 to C24: the transitions of the segmenter. *)

\* The loop body has just run on the line lines[i].
LineRead == pc = "scan" /\ i <= Len(lines) /\ i' = i + 1

TextAfterPrefix(line) == Strip(SubSeq(line, Len(MarkerPrefix) + 1, Len(line)))

\* C23 as stated: the pass of the loop over a marker line, whether a fence
\* is open or not, saves the buffer under the current name when both are
\* there, makes the trimmed text after the marker prefix the current name,
\* empties the buffer and closes the fence.
C23_MarkerTransition ==
    [][(LineRead /\ IsMarker(lines[i])) =>
          /\ workflows' = Flush(workflows, current_file, current_content)
          /\ current_file'.name = TextAfterPrefix(lines[i])
          /\ current_content' = <<>>
          /\ in_code_block' = FALSE]_vars

\* C24: when the input is at its end, the buffer holds the lines of the
\* fence spans after the last marker, closed or not, and what the sanitizer
\* leaves of them is in the returned map under the name of that marker.
C24_EndOfInputFlush ==
    LET m == MarkerBefore(lines, Len(lines) + 1) IN
    (pc = "done" /\ m > 0 /\ ExtractName(lines[m]) # <<>>) =>
        /\ current_content = FenceSpanLines(lines, m)
        /\ CleanYamlContent(current_content) # <<>> =>
              /\ ExtractName(lines[m]) \in DOMAIN workflows
              /\ workflows[ExtractName(lines[m])] = CleanYamlContent(current_content)

\* The input ended inside an open fence, and the lines captured in it are
\* in the map under a name that no earlier marker carries.
C24_Witness ==
    /\ pc = "done"
    /\ in_code_block
    /\ current_content # <<>>
    /\ Cardinality(Occurrences(lines, current_file.name)) = 1
    /\ current_file.name \in DOMAIN workflows
    /\ workflows[current_file.name] = Join(current_content)

-----------------------------------------------------------------------------
(* C25, C26 and C28: the two phases of the sanitizer. *)

StartsWithGlyph(line) == \E g \in BulletGlyphs : StartsWith(Strip(line), g)

\* The filtered lines up to the last one that Boundary accepts, joined and
\* trimmed; all of them when it accepts none.
KeptUpTo(filtered, Boundary(_)) ==
    LET B == {k \in 1..Len(filtered) : Boundary(filtered[k])}
    IN  IF B = {} THEN Strip(Join(filtered))
        ELSE Strip(Join(SubSeq(filtered, 1, MaxOf(B))))

\* C25 as stated: the boundary of the trim is the last non-blank filtered
\* line that contains a colon or starts with "-"; the lines up to it are
\* kept and the lines after it are discarded, so that trailing list items
\* such as "- name: x" stay.
C25_TrimKeepsListItems ==
    pc = "cleaned" =>
        first_pass =
            KeptUpTo(FilteredLines(raw),
                     LAMBDA line : /\ ~IsBlank(line)
                                   /\ \/ Contains(line, <<":">>)
                                      \/ StartsWith(Strip(line), <<"-">>))

\* The filter phase drops the line.
DroppedByFilter(line) ==
    \/ StartsWithGlyph(line) /\ ~Contains(line, <<":">>)
    \/ StartsWith(Strip(line), <<"#">>) /\ ~StartsWith(line, <<"#">>)

\* C26: the lines that pass the filter are, in their order, the raw lines
\* but those whose trimmed form starts with a bullet glyph and that hold no
\* colon, and those whose trimmed form starts with "#" and that do not start
\* with "#" themselves; and every line of the output is such a line.
C26_LineFilter ==
    pc = "cleaned" =>
        /\ FilteredLines(raw) = PickLines(raw, LAMBDA k : ~DroppedByFilter(raw[k]))
        /\ \A line \in LinesOf(first_pass) :
              first_pass = <<>> \/
              \E k \in 1..Len(raw) : ~DroppedByFilter(raw[k]) /\ Strip(raw[k]) = Strip(line)

\* The raw lines hold a bullet without a colon and an indented "#" line,
\* which are dropped, and a list item with a colon and a "#" line at column
\* zero, which are in the output.
C26_Witness ==
    /\ pc = "cleaned"
    /\ \E k \in 1..Len(raw) : StartsWithGlyph(raw[k]) /\ DroppedByFilter(raw[k])
    /\ \E k \in 1..Len(raw) : ~StartsWithGlyph(raw[k]) /\ DroppedByFilter(raw[k])
    /\ \E line \in LinesOf(first_pass) : StartsWithGlyph(line)
    /\ \E line \in LinesOf(first_pass) : StartsWith(line, <<"#">>)

-----------------------------------------------------------------------------
(* cli.py, migrate: discovery, one pass of the loop per config, then the
   removal of .circleci, all inside one try block.  Each call that can raise
   either returns or raises one of the exceptions listed for it. *)

\* Exceptions of the calls migrate makes.
ClientErrors == {"AuthError"}
ReadErrors == {"FileNotFoundError", "YAMLError"}
ServiceErrors == {"ServiceError"}
GenerateErrors == {"ServiceError", "ValueError"}
SaveErrors == {"OSError"}

\* The only handler of the try block: FileNotFoundError becomes click.Abort,
\* every other exception leaves migrate as it is.
Raise(e) ==
    /\ pc' = "migrated"
    /\ outcome' = IF e = "FileNotFoundError" THEN "Abort" ELSE e
    /\ UNCHANGED <<write, remove_circleci, configs, config_index, completed, circleci_dir>>

\* A step of the loop body has returned.
Returned(step, next) ==
    /\ completed' = completed \cup {<<config_index, step>>}
    /\ pc' = next
    /\ UNCHANGED <<write, remove_circleci, configs, config_index, circleci_dir, outcome>>

\* The call at a step of the loop body returns or raises.
LoopStep(step, next, errors) ==
    \E r \in {"ok"} \cup errors :
        IF r = "ok" THEN Returned(step, next) ELSE Raise(r)

\* The removal is asked for without the write test.
RemovalRequestedAnyMode == remove_circleci

\* if remove_circleci and write
RemovalRequested == remove_circleci /\ write

MigInit ==
    /\ pc = "discover"
    /\ write \in BOOLEAN
    /\ remove_circleci \in BOOLEAN
    /\ circleci_dir \in {"absent", "present"}
    /\ configs \in IF circleci_dir = "absent" THEN {0} ELSE 0..MaxConfigs
    /\ config_index = 1
    /\ completed = {}
    /\ outcome = "none"
    /\ SegIdle
    /\ PlanIdle
    /\ CleanIdle
    /\ ValIdle

\* discover_circleci_configs: no directory or no config file is an error.
Discover ==
    /\ pc = "discover"
    /\ IF circleci_dir = "absent" \/ configs = 0
       THEN Raise("FileNotFoundError")
       ELSE /\ pc' = "client"
            /\ UNCHANGED migVars
    /\ UNCHANGED <<segVars, planVars, cleanVars, valVars>>

\* get_ai_client, once for all configs; then the loop starts.
GetClient ==
    /\ pc = "client"
    /\ \E r \in {"ok"} \cup ClientErrors :
         IF r = "ok"
         THEN /\ pc' = "metadata"
              /\ UNCHANGED migVars
         ELSE Raise(r)
    /\ UNCHANGED <<segVars, planVars, cleanVars, valVars>>

ExtractMetadata ==
    /\ pc = "metadata"
    /\ LoopStep("metadata", "parse", ReadErrors)
    /\ UNCHANGED <<segVars, planVars, cleanVars, valVars>>

ParseConfig ==
    /\ pc = "parse"
    /\ LoopStep("parse", "analyze", ReadErrors)
    /\ UNCHANGED <<segVars, planVars, cleanVars, valVars>>

AnalyzeConfig ==
    /\ pc = "analyze"
    /\ LoopStep("analyze", "generate", ServiceErrors)
    /\ UNCHANGED <<segVars, planVars, cleanVars, valVars>>

GenerateWorkflows ==
    /\ pc = "generate"
    /\ LoopStep("generate", "save", GenerateErrors)
    /\ UNCHANGED <<segVars, planVars, cleanVars, valVars>>

\* The end of the loop body: a preview, or save_workflows; then the next
\* config, or the code after the loop.
SaveOrPreview ==
    /\ pc = "save"
    /\ \E r \in {"ok"} \cup (IF write THEN SaveErrors ELSE {}) :
         IF r = "ok"
         THEN /\ completed' = completed \cup
                    {<<config_index, IF write THEN "save" ELSE "preview">>}
              /\ config_index' = config_index + 1
              /\ pc' = IF config_index < configs THEN "metadata" ELSE "remove"
              /\ UNCHANGED <<write, remove_circleci, configs, circleci_dir, outcome>>
         ELSE Raise(r)
    /\ UNCHANGED <<segVars, planVars, cleanVars, valVars>>

\* After the loop: shutil.rmtree when asked for, its OSError caught and
\* reported; then "Migration complete".
RemoveCircleci ==
    /\ pc = "remove"
    /\ pc' = "migrated"
    /\ outcome' = "complete"
    /\ IF RemovalRequested /\ circleci_dir = "present"
       THEN circleci_dir' \in {"removed", "present"}
       ELSE circleci_dir' = circleci_dir
    /\ UNCHANGED <<write, remove_circleci, configs, config_index, completed>>
    /\ UNCHANGED <<segVars, planVars, cleanVars, valVars>>

MigNext ==
    \/ Discover
    \/ GetClient
    \/ ExtractMetadata
    \/ ParseConfig
    \/ AnalyzeConfig
    \/ GenerateWorkflows
    \/ SaveOrPreview
    \/ RemoveCircleci

SpecMigrate == MigInit /\ [][MigNext]_vars

\* The steps the removal waits for, for every config.
RequiredSteps == {"analyze", "generate", "save"}

AllConfigsProcessed ==
    \A c \in 1..configs : \A step \in RequiredSteps : <<c, step>> \in completed

====
